---- MODULE Spec2Model ----
(***************************************************************************)
(* TandemQUAST pipeline controller (tandemquast.py): set_params and main.  *)
(* One run of main is modelled as a sequential process whose position is   *)
(* pc.  The command-line arguments, the platform and the disk are chosen   *)
(* in Init; the outcomes of the external collaborators (aligner status,    *)
(* a stage returning or raising) are chosen when the collaborator returns. *)
(***************************************************************************)
EXTENDS Integers, Sequences, FiniteSets, TLC

\* ------------------------------------------------------------------ bounds
MaxAsm == 2
MaxLabelLen == 2
MaxReturnCode == 2

\* ------------------------------------------------------------------ values
\* Python's None for an optional file name.
None == "None"

\* An optional string is <<>> (None) or <<s>> with s a sequence of characters.
NoLabels == <<>>

Quote == "\""
Comma == ","
Chars == {"a", Comma, Quote}

\* The sequences over S of length n, and of length at most n.
SeqsOfLen(S, n) == [1..n -> S]
SeqsUpTo(S, n) == UNION {SeqsOfLen(S, k) : k \in 0..n}

\* Files on disk that click.Path(exists=True) accepts as assemblies.
AssemblyFiles == {"a.fa", "b.fa", "bad.fa"}
\* Sequences of distinct assembly files, in command-line order.
AssemblyLists ==
    {s \in SeqsUpTo(AssemblyFiles, MaxAsm) :
        \A i, j \in 1..Len(s) : i # j => s[i] # s[j]}
LabelStrings == {NoLabels} \cup {<<s>> : s \in SeqsUpTo(Chars, MaxLabelLen)}
ThreadChoices == {1, 8}
MonomerChoices == {None, "mono.fa", "missing.fa"}
Platforms == {"linux", "darwin"}
\* Directories under out_dir, and what an earlier run may have left of them.
OutDirs == {"report", "tmp"}
LeftOverDirs == {{}, {"report"}, {"report", "tmp"}}

AnalysisStages ==
    {"Coverage", "Breakpoint", "KmerConsistency", "PairwiseComparison",
     "Discordance", "MonomerUnit"}

\* ------------------------------------------------------------------- state
VARIABLES
    pc,                  \* position in main
    nano_reads_fname,    \* --nano
    pacbio_reads_fname,  \* --pacbio
    assembly_fnames,     \* positional arguments
    labels,              \* -l
    threads,             \* -t
    monomers_fname,      \* -m (main overwrites it at the platform gate)
    only_polish,         \* --only-polish
    no_nucl_alignment,   \* --no-nucl-align
    sys_platform,        \* sys.platform
    fs,                  \* paths that exist on disk
    config,              \* the config module's attributes
    reads_fname,         \* local of main
    list_labels,         \* local of main
    assemblies,          \* local of main
    cmdl,                \* the aligner's command line
    return_code,         \* the aligner's exit status: <<>> or <<status>>
    exit_code,           \* the process's exit status: <<>> while running, or <<status>>
    stdout,              \* messages printed
    invoked,             \* stages invoked so far, in order
    completed,           \* stages that returned normally, in order
    active,              \* stages invoked and not yet returned
    reads_passed,        \* <<stage, reads file>> of each call that is given the reads
    written,             \* config attributes written by this run, in order
    monomers_arg,        \* -m as given on the command line
    fs0,                 \* the disk when the run started
    fasta_len            \* the sequence length in each assembly file on disk

args == <<nano_reads_fname, pacbio_reads_fname, assembly_fnames, labels,
          threads, only_polish, no_nucl_alignment, sys_platform,
          monomers_arg, fs0, fasta_len>>
locals == <<reads_fname, list_labels, assemblies, cmdl, return_code,
            monomers_fname>>
trace == <<invoked, completed, active, reads_passed>>
vars == <<pc, args, locals, fs, config, exit_code, stdout, trace, written>>

\* ---------------------------------------------------------- pure functions
\* Python truthiness of an optional file name.
Truthy(x) == x # None

\* Python truthiness of an optional string: None and "" are false.
TruthyStr(x) == x # <<>> /\ x[1] # <<>>

\* "linux" in sys.platform
IsLinux(p) == p = "linux"

Max(a, b) == IF a >= b THEN a ELSE b
Min(a, b) == IF a <= b THEN a ELSE b

RECURSIVE MaxOf(_)
MaxOf(s) == IF Len(s) = 1 THEN s[1] ELSE Max(s[1], MaxOf(Tail(s)))

\* scripts.utils.check_fasta_files: every file is a well-formed sequence file.
WellFormed(f) == f # "bad.fa"
check_fasta_files(fnames) == \A i \in 1..Len(fnames) : WellFormed(fnames[i])

\* scripts.utils.get_fasta_len: the length of the sequence in the file.
get_fasta_len(f) == fasta_len[f]

\* The assembly files' lengths in the runs of the whole pipeline.
DiskLens ==
    [f \in AssemblyFiles |->
        CASE f = "a.fa" -> 75000
          [] f = "b.fa" -> 150000
          [] OTHER -> 0]

\* Lengths around the thresholds of set_params.
ProbeLens ==
    {1, 74999, 75150, 99999, 100000, 150000, 999999, 1000000, 1500000}

\* str.replace('"', '')
RemoveQuotes(s) == SelectSeq(s, LAMBDA c : c # Quote)

\* str.split(','): the fields between the commas; "" gives [""].
RECURSIVE Split(_)
Split(s) ==
    IF \A i \in 1..Len(s) : s[i] # Comma
    THEN <<s>>
    ELSE LET i == CHOOSE k \in 1..Len(s) :
                      s[k] = Comma /\ \A j \in 1..(k - 1) : s[j] # Comma
         IN  <<SubSeq(s, 1, i - 1)>> \o Split(SubSeq(s, i + 1, Len(s)))

\* labels.replace('"', '').split(','), each label as an optional string.
ParseLabels(s) ==
    LET parts == Split(RemoveQuotes(s))
    IN  [i \in 1..Len(parts) |-> <<parts[i]>>]

\* [None] * n
NoneList(n) == [i \in 1..n |-> <<>>]

\* scripts.assembly.Assembly(fname, name=..., out_dir=...): the label is the
\* given name, or a name derived from the file when none is given.
Assembly(fname, name) ==
    [fname |-> fname,
     name  |-> name,
     label |-> IF name = <<>> THEN <<fname>> ELSE name[1]]

\* ",".join(ls)
RECURSIVE Join(_)
Join(ls) ==
    IF Len(ls) = 0 THEN <<>>
    ELSE IF Len(ls) = 1 THEN ls[1]
    ELSE ls[1] \o <<Comma>> \o Join(Tail(ls))

\* ------------------------------------------------------------- set_params
KmerWindowSize(assembly_len) == Max(500, assembly_len \div 150)

\* lines 23-28 with "<=" for "<"
BpWindowSize_Inclusive(assembly_len) ==
    IF assembly_len <= 100000 THEN 200
    ELSE IF assembly_len <= 1000000 THEN 500
    ELSE 1000

BpWindowSize(assembly_len) ==
    IF assembly_len < 100000 THEN 200
    ELSE IF assembly_len < 1000000 THEN 500
    ELSE 1000

\* line 29 without the outer min
MovingAvgWindowSize_NoMin(assembly_len) ==
    Max(20, (assembly_len \div BpWindowSize(assembly_len)) \div 20)

MovingAvgWindowSize(assembly_len) ==
    Min(20, Max(20, (assembly_len \div BpWindowSize(assembly_len)) \div 20))

\* line 20 with the first file's length for the maximum
AssemblyLen_First(fnames) == get_fasta_len(fnames[1])

AssemblyLen(fnames) == MaxOf([i \in 1..Len(fnames) |-> get_fasta_len(fnames[i])])

ParamNames ==
    <<"KMER_WINDOW_SIZE", "BP_WINDOW_SIZE", "MOVING_AVG_WINDOW_SIZE", "MAX_THREADS">>

\* lines 20-30 with line 30 storing a fixed thread count
ConfigAfterSetParams_OneThread(cfg, fnames, t) ==
    [cfg EXCEPT !.KMER_WINDOW_SIZE = KmerWindowSize(AssemblyLen(fnames)),
                !.BP_WINDOW_SIZE = BpWindowSize(AssemblyLen(fnames)),
                !.MOVING_AVG_WINDOW_SIZE = MovingAvgWindowSize(AssemblyLen(fnames)),
                !.MAX_THREADS = 1]

\* The config module after lines 20-30 of set_params(fnames, t).
ConfigAfterSetParams(cfg, fnames, t) ==
    [cfg EXCEPT !.KMER_WINDOW_SIZE = KmerWindowSize(AssemblyLen(fnames)),
                !.BP_WINDOW_SIZE = BpWindowSize(AssemblyLen(fnames)),
                !.MOVING_AVG_WINDOW_SIZE = MovingAvgWindowSize(AssemblyLen(fnames)),
                !.MAX_THREADS = t]

\* set_params with the well-formedness check moved after the assignments.
set_params_CheckLast(cfg, fnames, t) ==
    [exit |-> IF ~check_fasta_files(fnames) THEN <<1>> ELSE <<>>,
     config |-> ConfigAfterSetParams(cfg, fnames, t),
     written |-> ParamNames]

\* set_params with sys.exit(2) at line 19
set_params_ExitTwo(cfg, fnames, t) ==
    IF ~check_fasta_files(fnames)
    THEN [exit |-> <<2>>, config |-> cfg, written |-> <<>>]
    ELSE [exit |-> <<>>,
          config |-> ConfigAfterSetParams(cfg, fnames, t),
          written |-> ParamNames]

\* set_params(fnames, t): the call's outcome. exit is <<1>> when the files fail
\* the check (sys.exit(1), nothing written), and <<>> when the call returns.
set_params(cfg, fnames, t) ==
    IF ~check_fasta_files(fnames)
    THEN [exit |-> <<1>>, config |-> cfg, written |-> <<>>]
    ELSE [exit |-> <<>>,
          config |-> ConfigAfterSetParams(cfg, fnames, t),
          written |-> ParamNames]

\* -------------------------------------------------------------------- Init
\* The config module as imported: its defaults are not set by the controller.
ConfigDefault ==
    [KMER_WINDOW_SIZE |-> 0, BP_WINDOW_SIZE |-> 0, MOVING_AVG_WINDOW_SIZE |-> 0,
     MAX_THREADS |-> 0, platform |-> "default", platfrom |-> "absent"]

Init ==
    /\ pc = "check_reads"
    /\ nano_reads_fname \in {None, "ont.fq"}
    /\ pacbio_reads_fname \in {None, "clr.fq"}
    /\ assembly_fnames \in AssemblyLists
    /\ labels \in LabelStrings
    /\ threads \in ThreadChoices
    /\ monomers_arg \in MonomerChoices
    /\ monomers_fname = monomers_arg
    /\ only_polish \in BOOLEAN
    /\ no_nucl_alignment \in BOOLEAN
    /\ sys_platform \in Platforms
    /\ fs0 \in {d \cup {"mono.fa"} : d \in LeftOverDirs}
    /\ fs = fs0
    /\ fasta_len = DiskLens
    /\ config = ConfigDefault
    /\ reads_fname = None
    /\ list_labels = <<>>
    /\ assemblies = <<>>
    /\ cmdl = <<>>
    /\ return_code = <<>>
    /\ exit_code = <<>>
    /\ stdout = <<"started">>
    /\ invoked = <<>>
    /\ completed = <<>>
    /\ active = {}
    /\ reads_passed = <<>>
    /\ written = <<>>

\* ----------------------------------------------------------------- helpers
\* sys.exit(code): the process ends with this status.
Exit(code) ==
    /\ pc' = "done"
    /\ exit_code' = <<code>>

\* An exception nobody catches: the interpreter prints it and exits with 1.
Uncaught == Exit(1)

\* The calls whose arguments include reads_fname: lines 89, 100, 117, 121, 135.
StagesGivenReads ==
    {"Polishing", "Aligner", "KmerConsistency", "Discordance", "MonomerUnit"}

\* A call of a stage: the controller blocks in it.
Invoke(stage, at) ==
    /\ invoked' = Append(invoked, stage)
    /\ reads_passed' = IF stage \in StagesGivenReads
                       THEN Append(reads_passed, <<stage, reads_fname>>)
                       ELSE reads_passed
    /\ active' = active \cup {stage}
    /\ pc' = at
    /\ UNCHANGED completed

\* A stage returns normally.
Returned(stage) ==
    /\ active' = active \ {stage}
    /\ completed' = Append(completed, stage)
    /\ UNCHANGED <<invoked, reads_passed>>

\* A stage raises.
Raised(stage) ==
    /\ active' = active \ {stage}
    /\ UNCHANGED <<invoked, completed, reads_passed>>
    /\ Uncaught

\* ------------------------------------------------------ conditions of main
\* line 51 with only the "both given" half of the test
BadReadSource_OnlyBoth(nano, pacbio) == Truthy(nano) /\ Truthy(pacbio)

\* line 51: both read files given, or neither
BadReadSource(nano, pacbio) ==
    \/ (Truthy(nano) /\ Truthy(pacbio))
    \/ (~Truthy(nano) /\ ~Truthy(pacbio))

\* line 80 with "<" for "!="
LabelMismatch_OnlyFewer(lbls, fnames) == Len(lbls) < Len(fnames)

\* line 80
LabelMismatch(lbls, fnames) == Len(lbls) # Len(fnames)

\* line 105, with the test written as "return_code < 0"
AlignerFailed_OnlyNegative(rc) == rc < 0

\* line 105
AlignerFailed(rc) == rc # 0

\* line 115 with the flag ignored
RunKmer_Always(no_nucl) == TRUE

\* line 115
RunKmer(no_nucl) == ~no_nucl

\* line 123 without the test that a monomer file was given
MonomerUnsupported_AnyRun(m, platform) == ~IsLinux(platform)

\* line 123
MonomerUnsupported(m, platform) == Truthy(m) /\ ~IsLinux(platform)

\* line 128 without the exists() test
SkipMonomer_NoExistsTest(m, disk) == ~Truthy(m)

\* line 128
SkipMonomer(m, disk) == ~Truthy(m) \/ m \notin disk

\* ----------------------------------------------------------------- actions
\* main, lines 51-53
CheckReadSource ==
    /\ pc = "check_reads"
    /\ IF BadReadSource(nano_reads_fname, pacbio_reads_fname)
       THEN /\ stdout' = Append(stdout, "ERROR_reads")
            /\ Exit(2)
       ELSE /\ pc' = "select_reads"
            /\ UNCHANGED <<stdout, exit_code>>
    /\ UNCHANGED <<args, locals, fs, config, trace, written>>

\* lines 55-60 with line 60 assigning config.platform
SelectReadSource_SameField ==
    /\ pc = "select_reads"
    /\ IF Truthy(nano_reads_fname)
       THEN /\ reads_fname' = nano_reads_fname
            /\ config' = [config EXCEPT !.platform = "nano"]
            /\ written' = Append(written, "platform")
       ELSE /\ reads_fname' = pacbio_reads_fname
            /\ config' = [config EXCEPT !.platform = "pacbio"]
            /\ written' = Append(written, "platform")
    /\ pc' = "check_assemblies"
    /\ UNCHANGED <<args, list_labels, assemblies, cmdl, return_code,
                   monomers_fname, fs, exit_code, stdout, trace>>

\* main, lines 55-60
SelectReadSource ==
    /\ pc = "select_reads"
    /\ IF Truthy(nano_reads_fname)
       THEN /\ reads_fname' = nano_reads_fname
            /\ config' = [config EXCEPT !.platform = "nano"]
            /\ written' = Append(written, "platform")
       ELSE /\ reads_fname' = pacbio_reads_fname
            /\ config' = [config EXCEPT !.platfrom = "pacbio"]
            /\ written' = Append(written, "platfrom")
    /\ pc' = "check_assemblies"
    /\ UNCHANGED <<args, list_labels, assemblies, cmdl, return_code,
                   monomers_fname, fs, exit_code, stdout, trace>>

\* main, lines 62-64
CheckAssemblies ==
    /\ pc = "check_assemblies"
    /\ IF assembly_fnames = <<>>
       THEN /\ stdout' = Append(stdout, "ERROR_assemblies")
            /\ Exit(2)
       ELSE /\ pc' = "set_params"
            /\ UNCHANGED <<stdout, exit_code>>
    /\ UNCHANGED <<args, locals, fs, config, trace, written>>

\* main, line 66, and set_params, lines 17-30
SetParams ==
    /\ pc = "set_params"
    /\ LET r == set_params(config, assembly_fnames, threads)
       IN  /\ config' = r.config
           /\ written' = written \o r.written
           /\ IF r.exit # <<>>
              THEN Exit(r.exit[1])
              ELSE /\ pc' = "make_dirs"
                   /\ UNCHANGED exit_code
    /\ UNCHANGED <<args, locals, fs, stdout, trace>>

\* main, lines 68-74
MakeDirs ==
    /\ pc = "make_dirs"
    /\ fs' = fs \cup (IF "report" \notin fs THEN {"report"} ELSE {})
                \cup (IF "tmp" \notin fs THEN {"tmp"} ELSE {})
    /\ pc' = "check_labels"
    /\ UNCHANGED <<args, locals, config, exit_code, stdout, trace, written>>

\* main, lines 77-82
CheckLabels ==
    /\ pc = "check_labels"
    /\ IF TruthyStr(labels)
       THEN /\ list_labels' = ParseLabels(labels[1])
            /\ IF LabelMismatch(ParseLabels(labels[1]), assembly_fnames)
               THEN /\ stdout' = Append(stdout, "ERROR_labels")
                    /\ Exit(2)
               ELSE /\ pc' = "build_assemblies"
                    /\ UNCHANGED <<stdout, exit_code>>
       ELSE /\ list_labels' = NoneList(Len(assembly_fnames))
            /\ pc' = "build_assemblies"
            /\ UNCHANGED <<stdout, exit_code>>
    /\ UNCHANGED <<args, reads_fname, assemblies, cmdl, return_code,
                   monomers_fname, fs, config, trace, written>>

\* main, line 84
BuildAssemblies ==
    /\ pc = "build_assemblies"
    /\ assemblies' = [i \in 1..Len(assembly_fnames) |->
                         Assembly(assembly_fnames[i], list_labels[i])]
    /\ pc' = "polish_gate"
    /\ UNCHANGED <<args, reads_fname, list_labels, cmdl, return_code,
                   monomers_fname, fs, config, exit_code, stdout, trace, written>>

\* main, lines 88-89: polishing.do is called iff only_polish
PolishGate ==
    /\ pc = "polish_gate"
    /\ IF only_polish
       THEN Invoke("Polishing", "in_polishing")
       ELSE /\ pc' = "mapping"
            /\ UNCHANGED trace
    /\ UNCHANGED <<args, locals, fs, config, exit_code, stdout, written>>

\* lines 89-93 without the sys.exit(0): main goes on to the mapping
PolishingReturn_NoExit ==
    /\ pc = "in_polishing"
    /\ \/ /\ Returned("Polishing")
          /\ stdout' = Append(stdout, "finished")
          /\ pc' = "mapping"
          /\ UNCHANGED exit_code
       \/ /\ Raised("Polishing")
          /\ UNCHANGED stdout
    /\ UNCHANGED <<args, locals, fs, config, written>>

\* main, lines 89-93: polishing.do returns, or raises
PolishingReturn ==
    /\ pc = "in_polishing"
    /\ \/ /\ Returned("Polishing")
          /\ stdout' = Append(stdout, "finished")
          /\ Exit(0)
       \/ /\ Raised("Polishing")
          /\ UNCHANGED stdout
    /\ UNCHANGED <<args, locals, fs, config, written>>

\* main, lines 96-104: the aligner's command line, and subprocess.call
CallAligner ==
    /\ pc = "mapping"
    /\ stdout' = Append(stdout, "Running TandemMapper")
    /\ cmdl' = <<[t |-> threads,
                  o |-> "out_dir",
                  reads_flag |-> IF Truthy(nano_reads_fname) THEN "--nano" ELSE "--pacbio",
                  reads |-> reads_fname,
                  l |-> Join([i \in 1..Len(assemblies) |-> assemblies[i].label]),
                  no_nucl_align |-> no_nucl_alignment,
                  fnames |-> [i \in 1..Len(assemblies) |-> assemblies[i].fname]]>>
    /\ Invoke("Aligner", "in_aligner")
    /\ UNCHANGED <<args, reads_fname, list_labels, assemblies, return_code,
                   monomers_fname, fs, config, exit_code, written>>

\* lines 104-107 with the call repeated on a non-zero status
AlignerReturn_Retry ==
    /\ pc = "in_aligner"
    /\ \E rc \in 0..MaxReturnCode :
          /\ return_code' = <<rc>>
          /\ IF AlignerFailed(rc)
             THEN UNCHANGED <<pc, trace, stdout, exit_code>>
             ELSE /\ Returned("Aligner")
                  /\ pc' = "coverage"
                  /\ UNCHANGED <<stdout, exit_code>>
    /\ UNCHANGED <<args, reads_fname, list_labels, assemblies, cmdl,
                   monomers_fname, fs, config, written>>

\* main, lines 104-107: the aligner's exit status
AlignerReturn ==
    /\ pc = "in_aligner"
    /\ \E rc \in 0..MaxReturnCode :
          /\ return_code' = <<rc>>
          /\ IF AlignerFailed(rc)
             THEN /\ active' = active \ {"Aligner"}
                  /\ UNCHANGED <<invoked, completed, reads_passed>>
                  /\ stdout' = Append(stdout, "ERROR_tandemMapper")
                  /\ Exit(2)
             ELSE /\ Returned("Aligner")
                  /\ pc' = "coverage"
                  /\ UNCHANGED <<stdout, exit_code>>
    /\ UNCHANGED <<args, reads_fname, list_labels, assemblies, cmdl,
                   monomers_fname, fs, config, written>>

\* A stage's do(...) is called at `from`.
StageCall(stage, from, at) ==
    /\ pc = from
    /\ Invoke(stage, at)
    /\ UNCHANGED <<args, locals, fs, config, exit_code, stdout, written>>

\* The call wrapped in a handler that drops the exception: main goes on at
\* `next` whether the stage returned or raised.
StageReturn_Swallow(stage, at, next) ==
    /\ pc = at
    /\ \/ /\ Returned(stage)
          /\ pc' = next
          /\ UNCHANGED exit_code
       \/ /\ active' = active \ {stage}
          /\ UNCHANGED <<invoked, completed, reads_passed>>
          /\ pc' = next
          /\ UNCHANGED exit_code
    /\ UNCHANGED <<args, locals, fs, config, stdout, written>>

\* A stage's do(...) returns and main goes on at `next`, or it raises.
StageReturn(stage, at, next) ==
    /\ pc = at
    /\ \/ /\ Returned(stage)
          /\ pc' = next
          /\ UNCHANGED exit_code
       \/ Raised(stage)
    /\ UNCHANGED <<args, locals, fs, config, stdout, written>>

\* main, line 110
CallCoverage == StageCall("Coverage", "coverage", "in_coverage")
\* line 113 left out: after the coverage, main goes on at line 115
CoverageReturn_SkipBreakpoint == StageReturn("Coverage", "in_coverage", "kmer_gate")
CoverageReturn == StageReturn("Coverage", "in_coverage", "breakpoint")

\* main, line 113
CallBreakpoint == StageCall("Breakpoint", "breakpoint", "in_breakpoint")
BreakpointReturn == StageReturn("Breakpoint", "in_breakpoint", "kmer_gate")

\* main, lines 115-117
KmerGate ==
    /\ pc = "kmer_gate"
    /\ IF RunKmer(no_nucl_alignment)
       THEN Invoke("KmerConsistency", "in_kmer")
       ELSE /\ pc' = "pairwise"
            /\ UNCHANGED trace
    /\ UNCHANGED <<args, locals, fs, config, exit_code, stdout, written>>
KmerReturn == StageReturn("KmerConsistency", "in_kmer", "pairwise")

\* main, line 120
CallPairwise == StageCall("PairwiseComparison", "pairwise", "in_pairwise")
PairwiseReturn == StageReturn("PairwiseComparison", "in_pairwise", "discordance")

\* main, line 121
CallDiscordance == StageCall("Discordance", "discordance", "in_discordance")
DiscordanceReturn == StageReturn("Discordance", "in_discordance", "platform_gate")

\* main, lines 123-125
PlatformGate ==
    /\ pc = "platform_gate"
    /\ IF MonomerUnsupported(monomers_fname, sys_platform)
       THEN /\ stdout' = Append(stdout, "ERROR_StringDecomposer")
            /\ monomers_fname' = None
       ELSE UNCHANGED <<stdout, monomers_fname>>
    /\ pc' = "finish_gate"
    /\ UNCHANGED <<args, reads_fname, list_labels, assemblies, cmdl, return_code,
                   fs, config, exit_code, trace, written>>

\* main, lines 128-135
FinishGate ==
    /\ pc = "finish_gate"
    /\ IF SkipMonomer(monomers_fname, fs)
       THEN /\ stdout' = Append(stdout, "finished")
            /\ Exit(0)
            /\ UNCHANGED trace
       ELSE /\ Invoke("MonomerUnit", "in_monomer")
            /\ UNCHANGED <<stdout, exit_code>>
    /\ UNCHANGED <<args, locals, fs, config, written>>

\* main, lines 135-141: monomer_analysis.do returns and main ends, or it raises
MonomerReturn ==
    /\ pc = "in_monomer"
    /\ \/ /\ Returned("MonomerUnit")
          /\ stdout' = Append(stdout, "finished_reports")
          /\ Exit(0)
       \/ /\ Raised("MonomerUnit")
          /\ UNCHANGED stdout
    /\ UNCHANGED <<args, locals, fs, config, written>>

Next ==
    \/ CheckReadSource
    \/ SelectReadSource
    \/ CheckAssemblies
    \/ SetParams
    \/ MakeDirs
    \/ CheckLabels
    \/ BuildAssemblies
    \/ PolishGate
    \/ PolishingReturn
    \/ CallAligner
    \/ AlignerReturn
    \/ CallCoverage
    \/ CoverageReturn
    \/ CallBreakpoint
    \/ BreakpointReturn
    \/ KmerGate
    \/ KmerReturn
    \/ CallPairwise
    \/ PairwiseReturn
    \/ CallDiscordance
    \/ DiscordanceReturn
    \/ PlatformGate
    \/ FinishGate
    \/ MonomerReturn

Spec == Init /\ [][Next]_vars

\* ------------------------------------------------- set_params on its own
\* main at line 66, after the nanopore file was selected, with one or more
\* assembly files whose lengths are drawn from ProbeLens.
ParamInit ==
    /\ pc = "set_params"
    /\ nano_reads_fname = "ont.fq"
    /\ pacbio_reads_fname = None
    /\ assembly_fnames \in AssemblyLists \ {<<>>}
    /\ labels = NoLabels
    /\ threads \in ThreadChoices
    /\ monomers_arg = None
    /\ monomers_fname = None
    /\ only_polish = FALSE
    /\ no_nucl_alignment = FALSE
    /\ sys_platform = "linux"
    /\ fs0 = {"mono.fa"}
    /\ fs = fs0
    /\ fasta_len \in {l \in [AssemblyFiles -> ProbeLens \cup {0}] :
                          l["bad.fa"] = 0 /\ l["a.fa"] # 0 /\ l["b.fa"] # 0}
    /\ config = [ConfigDefault EXCEPT !.platform = "nano"]
    /\ reads_fname = "ont.fq"
    /\ list_labels = <<>>
    /\ assemblies = <<>>
    /\ cmdl = <<>>
    /\ return_code = <<>>
    /\ exit_code = <<>>
    /\ stdout = <<"started">>
    /\ invoked = <<>>
    /\ completed = <<>>
    /\ active = {}
    /\ reads_passed = <<>>
    /\ written = <<"platform">>

\* Every call made by main returns or fails, and the interpreter runs main's
\* next statement: a step that can be taken is eventually taken.
FairSpec == Spec /\ WF_vars(Next)

ParamSpec == ParamInit /\ [][SetParams]_vars

\* ------------------------------------------------------------- properties
Range(s) == {s[i] : i \in 1..Len(s)}
Invoked(stage) == stage \in Range(invoked)
Completed(stage) == stage \in Range(completed)
Printed(msg) == msg \in Range(stdout)
Done == pc = "done"

\* Exactly one of --nano and --pacbio is given.
ReadSourceValid == (nano_reads_fname # None) # (pacbio_reads_fname # None)

\* -l is given and is not the empty string.
LabelsGiven == labels # <<>> /\ Len(labels[1]) > 0

\* The number of comma-separated labels in -l: one more than its commas.
NumLabels == 1 + Cardinality({i \in 1..Len(labels[1]) : labels[1][i] = Comma})
NumAssemblies == Len(assembly_fnames)
LabelCountMismatch == LabelsGiven /\ NumLabels # NumAssemblies

AllWellFormed == \A i \in 1..NumAssemblies : WellFormed(assembly_fnames[i])

\* The run passes every check of lines 51-82.
InputsValid ==
    /\ ReadSourceValid
    /\ NumAssemblies >= 1
    /\ AllWellFormed
    /\ ~LabelCountMismatch

AlignerReturnedNonZero == return_code # <<>> /\ return_code # <<0>>

\* C1: in a run that is not polish-only and passes validation, once the
\* aligner has returned a non-zero status the process has exited with code 2
\* and no analysis stage has been or is ever invoked; and in every run
\* Coverage is invoked only after the aligner returned status zero.
C1_AlignerFailureIsFatal ==
    /\ (~only_polish /\ InputsValid /\ AlignerReturnedNonZero) =>
          /\ exit_code = <<2>>
          /\ Range(invoked) \cap AnalysisStages = {}
    /\ Invoked("Coverage") => return_code = <<0>>

C1_Witness ==
    /\ ~only_polish /\ InputsValid
    /\ return_code = <<1>>
    /\ Done /\ exit_code = <<2>>
    /\ invoked = <<"Aligner">>

\* C2 as stated: polishing is invoked iff the polish-only flag is set and the
\* inputs are valid, such a run never invokes the aligner or an analysis
\* stage, and it terminates with exit code 0.
C2_Original ==
    /\ Invoked("Polishing") => (only_polish /\ InputsValid)
    /\ (only_polish /\ InputsValid /\ Done) => Invoked("Polishing")
    /\ (only_polish /\ InputsValid) =>
          Range(invoked) \cap ({"Aligner"} \cup AnalysisStages) = {}
    /\ (only_polish /\ InputsValid /\ Done) => exit_code = <<0>>

\* C2, amended: polishing is invoked only with the polish-only flag set and
\* valid inputs, and every finished run with the flag set and valid inputs has
\* invoked it; with the flag set neither the aligner nor an analysis stage is
\* ever invoked; the run ends with exit code 0 when polishing.do returns, and
\* with exit code 1 when it raises.
C2_PolishOnly ==
    /\ Invoked("Polishing") => (only_polish /\ InputsValid)
    /\ (only_polish /\ InputsValid /\ Done) => Invoked("Polishing")
    /\ only_polish => Range(invoked) \cap ({"Aligner"} \cup AnalysisStages) = {}
    /\ (only_polish /\ InputsValid /\ Done) =>
          exit_code = IF Completed("Polishing") THEN <<0>> ELSE <<1>>

C2_Witness ==
    /\ only_polish /\ InputsValid
    /\ Done /\ exit_code = <<0>>
    /\ invoked = <<"Polishing">> /\ completed = <<"Polishing">>

\* The fixed order of the pipeline's stages; the optional ones may be left out.
StageOrder ==
    <<"Aligner", "Coverage", "Breakpoint", "KmerConsistency",
      "PairwiseComparison", "Discordance", "MonomerUnit">>
OptionalStages == {"KmerConsistency", "MonomerUnit"}
PositionOf(stage) == CHOOSE i \in 1..Len(StageOrder) : StageOrder[i] = stage
IsPrefix(s, t) == Len(s) <= Len(t) /\ \A i \in 1..Len(s) : s[i] = t[i]
OrderWithout(omitted) == SelectSeq(StageOrder, LAMBDA st : st \notin omitted)
\* The stage invocations of the pipeline proper (polishing is not one of them).
PipelineInvocations == SelectSeq(invoked, LAMBDA st : st \in Range(StageOrder))

\* C3: the stage invocations are a prefix of the fixed order with optional
\* stages possibly left out, no stage is invoked twice, a stage is invoked only
\* when every non-optional stage before it has completed, and at most one
\* stage is active at any time.
C3_FixedOrder ==
    /\ \E omitted \in SUBSET OptionalStages :
          IsPrefix(PipelineInvocations, OrderWithout(omitted))
    /\ \A i, j \in 1..Len(invoked) : i # j => invoked[i] # invoked[j]
    /\ \A st \in Range(PipelineInvocations) :
          \A i \in 1..(PositionOf(st) - 1) :
              StageOrder[i] \notin OptionalStages => Completed(StageOrder[i])
    /\ Cardinality(active) <= 1

C3_Witness ==
    /\ Done
    /\ invoked = StageOrder
    /\ completed = StageOrder

\* The stage invoked right after Breakpoint is `stage`.
BreakpointFollowedBy(stage) ==
    \E i \in 1..(Len(invoked) - 1) :
        invoked[i] = "Breakpoint" /\ invoked[i + 1] = stage

\* C4 as stated: a finished non-polish run whose aligner succeeded has invoked
\* KmerConsistency iff the no-nucl-alignment flag is not set; with the flag
\* set PairwiseComparison was invoked right after Breakpoint, and without it
\* KmerConsistency was, before PairwiseComparison.
C4_Original ==
    (~only_polish /\ return_code = <<0>> /\ Done) =>
        /\ Invoked("KmerConsistency") <=> ~no_nucl_alignment
        /\ no_nucl_alignment => BreakpointFollowedBy("PairwiseComparison")
        /\ ~no_nucl_alignment => BreakpointFollowedBy("KmerConsistency")
        /\ Invoked("PairwiseComparison") =>
              (~no_nucl_alignment => Completed("KmerConsistency"))

\* C4, amended: KmerConsistency is invoked only when the no-nucl-alignment
\* flag is not set; in a run in which Breakpoint has completed, the stage
\* invoked right after Breakpoint is KmerConsistency when the flag is not set
\* (and it has completed before PairwiseComparison is invoked) and
\* PairwiseComparison when it is set, and that stage is invoked as the
\* controller's next call.
C4_KmerGate ==
    /\ Invoked("KmerConsistency") => ~no_nucl_alignment
    /\ \A i \in 1..(Len(invoked) - 1) :
          invoked[i] = "Breakpoint" =>
              invoked[i + 1] = IF no_nucl_alignment
                               THEN "PairwiseComparison"
                               ELSE "KmerConsistency"
    /\ (~no_nucl_alignment /\ Invoked("PairwiseComparison")) =>
          Completed("KmerConsistency")
    /\ (~no_nucl_alignment /\ Completed("Breakpoint") /\ pc # "kmer_gate") =>
          Invoked("KmerConsistency")
    /\ (no_nucl_alignment /\ Completed("Breakpoint")
          /\ pc \notin {"kmer_gate", "pairwise"}) =>
          Invoked("PairwiseComparison")

C4_Witness ==
    /\ no_nucl_alignment /\ ~only_polish /\ return_code = <<0>>
    /\ Done /\ exit_code = <<0>>
    /\ invoked = <<"Aligner", "Coverage", "Breakpoint", "PairwiseComparison",
                   "Discordance">>

\* A monomer file was given, it exists on disk and the platform is Linux.
MonomerUsable ==
    /\ monomers_arg # None
    /\ monomers_arg \in fs0
    /\ IsLinux(sys_platform)

\* C5: MonomerUnit is invoked only after Discordance has completed and only
\* when a monomer file was given, exists on disk and the platform is Linux;
\* in that case it is invoked once the two tests after Discordance are done;
\* in every other case the run that completed Discordance exits with code 0
\* (and MonomerUnit is never invoked).
C5_MonomerGate ==
    /\ Invoked("MonomerUnit") => (MonomerUsable /\ Completed("Discordance"))
    /\ (Completed("Discordance") /\ MonomerUsable
          /\ pc \notin {"platform_gate", "finish_gate"}) =>
          Invoked("MonomerUnit")
    /\ (Completed("Discordance") /\ ~MonomerUsable /\ Done) =>
          exit_code = <<0>>

C5_Witness ==
    /\ monomers_arg = "missing.fa" /\ IsLinux(sys_platform)
    /\ Completed("Discordance") /\ ~Invoked("MonomerUnit")
    /\ Done /\ exit_code = <<0>>

Warned == Printed("ERROR_StringDecomposer")
MonomerOnOtherPlatform == monomers_arg # None /\ ~IsLinux(sys_platform)

\* C6 as stated, for runs with valid inputs: a finished run with a monomer
\* file given and a platform that is not Linux has printed the warning, has
\* not invoked MonomerUnit and has exit code 0; the warning is printed only in
\* such a run, after Discordance has completed.
C6_Original ==
    /\ (MonomerOnOtherPlatform /\ InputsValid /\ Done) =>
          (Warned /\ ~Invoked("MonomerUnit") /\ exit_code = <<0>>)
    /\ Warned => (MonomerOnOtherPlatform /\ Completed("Discordance"))

\* C6, amended: the warning is printed only when a monomer file was given and
\* the platform is not Linux, and only after Discordance has completed; in
\* such a run MonomerUnit is never invoked, and if the run completes
\* Discordance the warning is printed at line 123 and the run ends with exit
\* code 0.
C6_PlatformWarning ==
    /\ Warned => (MonomerOnOtherPlatform /\ Completed("Discordance"))
    /\ MonomerOnOtherPlatform => ~Invoked("MonomerUnit")
    /\ (MonomerOnOtherPlatform /\ Completed("Discordance")
          /\ pc # "platform_gate") => Warned
    /\ (MonomerOnOtherPlatform /\ Completed("Discordance") /\ Done) =>
          exit_code = <<0>>

C6_Witness ==
    /\ monomers_arg = "mono.fa" /\ ~IsLinux(sys_platform)
    /\ Warned /\ ~Invoked("MonomerUnit")
    /\ Done /\ exit_code = <<0>>

AdaptiveWritten == Range(written) \cap Range(ParamNames) # {}
AdaptiveUnchanged ==
    \A f \in Range(ParamNames) : config[f] = ConfigDefault[f]
NoSideEffects ==
    /\ fs = fs0
    /\ ~AdaptiveWritten /\ AdaptiveUnchanged
    /\ invoked = <<>>

\* C7: the run gets past the read-source selection iff exactly one of --nano
\* and --pacbio is given; with both or neither the run ends at the first
\* step with exit code 2, and no directory is created, no adaptive parameter
\* is computed and no stage is invoked.
C7_ReadSource ==
    /\ reads_fname # None => ReadSourceValid
    /\ (ReadSourceValid /\ pc \notin {"check_reads", "select_reads"}) =>
          reads_fname # None
    /\ ~ReadSourceValid => NoSideEffects
    /\ (~ReadSourceValid /\ pc # "check_reads") =>
          (Done /\ exit_code = <<2>> /\ written = <<>>)

C7_Witness ==
    /\ nano_reads_fname # None /\ pacbio_reads_fname # None
    /\ Done /\ exit_code = <<2>>
    /\ Printed("ERROR_reads")

\* The i-th comma-separated field of s, without its quote characters.
FieldOf(s, i) ==
    LET idx == {k \in 1..Len(s) :
                   /\ s[k] \notin {Comma, Quote}
                   /\ Cardinality({j \in 1..(k - 1) : s[j] = Comma}) = i - 1}
    IN  [n \in 1..Cardinality(idx) |->
            s[CHOOSE k \in idx : Cardinality({j \in idx : j < k}) = n - 1]]

\* The i-th Assembly has the i-th file and the i-th label.
LabelsAttachedInOrder ==
    /\ Len(assemblies) = NumAssemblies
    /\ \A i \in 1..NumAssemblies :
          /\ assemblies[i].fname = assembly_fnames[i]
          /\ assemblies[i].name = <<FieldOf(labels[1], i)>>

\* C8 as stated: with a non-empty label string of M labels and N # M assembly
\* files the run ends with exit code 2, no Assembly is constructed and no
\* stage is invoked; with M = N the i-th label goes to the i-th file.
C8_Original ==
    /\ LabelCountMismatch => (assemblies = <<>> /\ invoked = <<>>)
    /\ (LabelCountMismatch /\ Done) => exit_code = <<2>>
    /\ (LabelsGiven /\ ~LabelCountMismatch /\ assemblies # <<>>) =>
          LabelsAttachedInOrder

\* C8, amended: with a non-empty label string whose number M of labels
\* differs from the number N of assembly files, no Assembly is ever
\* constructed and no stage (polishing, aligner, analysis) is ever invoked,
\* whatever the polish-only flag; the run ends with exit code 2 when every
\* assembly file is well-formed, and with exit code 1 when the read source
\* is valid and a file is ill-formed; with M = N the i-th Assembly has the
\* i-th file and the i-th label.
C8_LabelCount ==
    /\ LabelCountMismatch => (assemblies = <<>> /\ invoked = <<>>)
    /\ (LabelCountMismatch /\ AllWellFormed /\ Done) => exit_code = <<2>>
    /\ (LabelCountMismatch /\ ~AllWellFormed /\ ReadSourceValid /\ Done) =>
          exit_code = <<1>>
    /\ (LabelsGiven /\ ~LabelCountMismatch /\ assemblies # <<>>) =>
          LabelsAttachedInOrder

C8_Witness ==
    /\ LabelCountMismatch /\ only_polish
    /\ NumAssemblies = 2 /\ NumLabels = 1
    /\ Printed("ERROR_labels")
    /\ Done /\ exit_code = <<2>>

\* C9: when the run ends with the label-count error, the report and tmp
\* directories exist only if they existed before the run.
C9_NoDirsOnLabelMismatch ==
    (Done /\ Printed("ERROR_labels")) =>
        \A d \in OutDirs : d \in fs => d \in fs0

SomeIllFormed == ~AllWellFormed

\* C10: with an ill-formed assembly file no adaptive parameter is written, no
\* directory is created and no stage is invoked; and once the well-formedness
\* check has run (the read source is valid) the process has exited with
\* status 1.
C10_InvalidInput ==
    /\ SomeIllFormed => NoSideEffects
    /\ (SomeIllFormed /\ ReadSourceValid
          /\ pc \notin {"check_reads", "select_reads", "check_assemblies",
                        "set_params"}) =>
          (Done /\ exit_code = <<1>>)

C10_Witness ==
    /\ SomeIllFormed /\ ReadSourceValid
    /\ Done /\ exit_code = <<1>>
    /\ fs = fs0 /\ invoked = <<>>

\* The stage was invoked and ended without returning normally: the aligner
\* with a non-zero status, an analysis stage by raising.
Failed(stage) == Invoked(stage) /\ ~Completed(stage) /\ stage \notin active

\* C11: once the aligner or an analysis stage has ended with a failure, the
\* process has exited with a non-zero status and the failed stage is the last
\* stage invoked in the run.
C11_StageFailureIsFatal ==
    \A st \in {"Aligner"} \cup AnalysisStages :
        Failed(st) =>
            /\ Done
            /\ exit_code \in {<<1>>, <<2>>}
            /\ invoked[Len(invoked)] = st

C11_Witness ==
    /\ Failed("Breakpoint")
    /\ Done /\ exit_code = <<1>>
    /\ invoked = <<"Aligner", "Coverage", "Breakpoint">>

\* set_params has returned.
ParamsSet == pc = "make_dirs"

\* The maximum of the lengths of the assembly files given.
MaxLength ==
    LET lens == {fasta_len[assembly_fnames[i]] : i \in 1..NumAssemblies}
    IN  CHOOSE l \in lens : \A m \in lens : m <= l

\* C12: after set_params the breakpoint window size is 200 when the maximum
\* assembly length L is below 100,000, 500 when 100,000 <= L < 1,000,000 and
\* 1000 when L >= 1,000,000; it is one of 200, 500 and 1000, and no shorter
\* length gets a larger window nor a longer one a smaller window.
C12_BpWindowSize ==
    ParamsSet =>
        LET L == MaxLength
            bp == config.BP_WINDOW_SIZE
        IN  /\ L < 100000 => bp = 200
            /\ (100000 <= L /\ L < 1000000) => bp = 500
            /\ L >= 1000000 => bp = 1000
            /\ bp \in {200, 500, 1000}
            /\ \A l \in ProbeLens :
                  /\ l <= L => BpWindowSize(l) <= bp
                  /\ l >= L => BpWindowSize(l) >= bp

C12_Witness ==
    /\ ParamsSet
    /\ MaxLength = 100000
    /\ config.BP_WINDOW_SIZE = 500

\* C13: after set_params on well-formed files whose maximum length is L > 0,
\* the k-mer window size is max(500, L // 150), L being the maximum over all
\* the files; it is never below 500.
C13_KmerWindowSize ==
    (ParamsSet /\ MaxLength > 0) =>
        /\ config.KMER_WINDOW_SIZE =
              IF MaxLength \div 150 > 500 THEN MaxLength \div 150 ELSE 500
        /\ config.KMER_WINDOW_SIZE >= 500

C13_Witness ==
    /\ ParamsSet
    /\ assembly_fnames = <<"a.fa", "b.fa">>
    /\ fasta_len["a.fa"] = 1 /\ fasta_len["b.fa"] = 150000
    /\ config.KMER_WINDOW_SIZE = 1000

\* C14: after set_params the moving-average window size is 20, whatever the
\* assembly length and the breakpoint window size.
C14_MovingAvgWindowSize ==
    ParamsSet => config.MOVING_AVG_WINDOW_SIZE = 20

C14_Witness ==
    /\ ParamsSet
    /\ MaxLength = 1500000
    /\ config.BP_WINDOW_SIZE = 1000
    /\ config.MOVING_AVG_WINDOW_SIZE = 20

\* C15: when the read-source selection is invalid or the assembly list is
\* empty, the process has exited with status 2 with no config attribute
\* written, no directory created and no stage invoked.
C15_NoSideEffectBeforeExit ==
    (Done /\ (~ReadSourceValid \/ NumAssemblies = 0)) =>
        /\ exit_code = <<2>>
        /\ written = <<>>
        /\ config = ConfigDefault
        /\ fs = fs0
        /\ invoked = <<>>

\* How many times the run wrote the config attribute f.
TimesWritten(f) == Cardinality({i \in 1..Len(written) : written[i] = f})

\* C16: no adaptive parameter is ever written twice; once a stage has been
\* invoked each has been written exactly once, and from then to the exit the
\* config holds the values the inputs determine: the window sizes of the
\* maximum assembly length and the thread count given by the caller.
C16_ParamsWrittenOnce ==
    /\ \A f \in Range(ParamNames) : TimesWritten(f) <= 1
    /\ invoked # <<>> =>
          /\ \A f \in Range(ParamNames) : TimesWritten(f) = 1
          /\ config.MAX_THREADS = threads
          /\ config.KMER_WINDOW_SIZE =
                IF MaxLength \div 150 > 500 THEN MaxLength \div 150 ELSE 500
          /\ config.BP_WINDOW_SIZE = BpWindowSize(MaxLength)
          /\ config.MOVING_AVG_WINDOW_SIZE = 20

C16_Witness ==
    /\ Done /\ exit_code = <<0>>
    /\ Invoked("MonomerUnit")
    /\ threads = 8 /\ config.MAX_THREADS = 8
    /\ config.BP_WINDOW_SIZE = 500

\* The reads file of the run: the nanopore file when given, else the CLR file.
SelectedReads ==
    IF nano_reads_fname # None THEN nano_reads_fname ELSE pacbio_reads_fname

\* C17: after the selection, with the nanopore file config.platform is "nano";
\* with the CLR file config.platform is what it was before the run and
\* config.platfrom is "pacbio"; config.platform is never "pacbio"; and every
\* call that takes the reads, the aligner's command line included, is given
\* the selected file.
C17_PlatformAsymmetry ==
    /\ config.platform # "pacbio"
    /\ reads_fname # None =>
          /\ reads_fname = SelectedReads
          /\ nano_reads_fname # None =>
                /\ config.platform = "nano"
                /\ config.platfrom = ConfigDefault.platfrom
          /\ nano_reads_fname = None =>
                /\ config.platform = ConfigDefault.platform
                /\ config.platfrom = "pacbio"
    /\ Len(reads_passed) =
          Cardinality({i \in 1..Len(invoked) : invoked[i] \in StagesGivenReads})
    /\ \A i \in 1..Len(reads_passed) : reads_passed[i][2] = SelectedReads
    /\ cmdl # <<>> =>
          /\ cmdl[1].reads = SelectedReads
          /\ cmdl[1].reads_flag = "--pacbio" <=> nano_reads_fname = None

C17_Witness ==
    /\ Done /\ exit_code = <<0>>
    /\ pacbio_reads_fname = "clr.fq" /\ nano_reads_fname = None
    /\ config.platform = "default" /\ config.platfrom = "pacbio"
    /\ reads_passed = <<<<"Aligner", "clr.fq">>, <<"KmerConsistency", "clr.fq">>,
                        <<"Discordance", "clr.fq">>, <<"MonomerUnit", "clr.fq">>>>

\* The exit status of the first check of lines 51-82 that fails, in the order
\* of the code; <<>> when none fails.
FirstFailingCheck ==
    IF ~ReadSourceValid THEN <<2>>
    ELSE IF NumAssemblies = 0 THEN <<2>>
    ELSE IF SomeIllFormed THEN <<1>>
    ELSE IF LabelCountMismatch THEN <<2>>
    ELSE <<>>

\* C19: when one or more of the checks made before the stages fail, the run
\* invokes no stage and ends with the exit code of the first failing check in
\* the order read source (2), empty assembly list (2), well-formedness (1),
\* label count (2); a run that ends with 1 before any stage is invoked has a
\* valid read source, an assembly file and an ill-formed file.
C19_FirstFailingCheck ==
    /\ FirstFailingCheck # <<>> =>
          /\ invoked = <<>>
          /\ Done => exit_code = FirstFailingCheck
    /\ (Done /\ invoked = <<>> /\ exit_code = <<1>>) =>
          (ReadSourceValid /\ NumAssemblies > 0 /\ SomeIllFormed)
    /\ (Done /\ invoked = <<>>) => FirstFailingCheck # <<>>

C19_Witness ==
    /\ Done /\ exit_code = <<1>>
    /\ ReadSourceValid
    /\ SomeIllFormed /\ LabelCountMismatch
    /\ invoked = <<>>

\* C20: every run eventually exits, and once it has exited it stays exited
\* and invokes no further stage.
C20_Termination ==
    /\ <>Done
    /\ [][Done => (Done' /\ invoked' = invoked)]_vars

C20_Witness ==
    /\ Done /\ exit_code = <<0>>
    /\ invoked = <<"Aligner", "Coverage", "Breakpoint", "KmerConsistency",
                   "PairwiseComparison", "Discordance", "MonomerUnit">>
    /\ active = {}

====
